---- MODULE Spec2Model ----
(***************************************************************************)
(* A model of awsterraform.py: AWSResourceBuilder.build and its helpers.   *)
(*                                                                         *)
(* Python strings that the code parses, lowercases, trims or concatenates  *)
(* are sequences of one-character strings.  Dictionary keys that are only  *)
(* compared ("existing", "tags", argument names) are plain strings.        *)
(* Argument values are tagged records:                                     *)
(*   [t |-> "str",  s |-> chars]   [t |-> "bool", b |-> BOOLEAN]           *)
(*   [t |-> "dict", m |-> key -> value]   [t |-> "list", l |-> Seq(value)] *)
(*   [t |-> "attr", ...]  an attribute read from a registered handle       *)
(*   [t |-> "raise", exc |-> ...]  the evaluation raised an exception      *)
(***************************************************************************)
EXTENDS Integers, Sequences, FiniteSets, TLC

VARIABLES
    config,          \* self.config: the configuration document
    resources,       \* self.resources: the registry, in insertion order
    stack,           \* ids of the constructs created in self.stack
    pc,              \* position in build(): "build", "export", "done", "raised"
    raised,          \* the exception that left build(), "None" while none has
    i,               \* index of the declaration the first loop is at
    j,               \* index of the registry entry the export loop is at
    calls,           \* the backend constructor calls made, in order
    outputs,         \* the TerraformOutput constructs created, in order
    log,             \* what the code printed, in order
    terraform_name,  \* the local terraform_name, as last assigned
    name_call        \* the last call of generate_resource_name: <<base_name, result>>

vars == <<config, resources, stack, pc, raised, i, j, calls, outputs, log,
          terraform_name, name_call>>

----------------------------------------------------------------------------
(* Strings *)

UpperLetters == <<"A","B","C","D","E","F","G","H","I","J","K","L","M",
                  "N","O","P","Q","R","S","T","U","V","W","X","Y","Z">>

LowerLetters == <<"a","b","c","d","e","f","g","h","i","j","k","l","m",
                  "n","o","p","q","r","s","t","u","v","w","x","y","z">>

Whitespace == {" ", "\t", "\n"}

LowerChar(c) ==
    IF \E k \in DOMAIN UpperLetters : UpperLetters[k] = c
    THEN LowerLetters[CHOOSE k \in DOMAIN UpperLetters : UpperLetters[k] = c]
    ELSE c

\* str.lower()
Lower(s) == [k \in DOMAIN s |-> LowerChar(s[k])]

\* str.strip(): leading and trailing whitespace removed
Strip(s) ==
    LET keep == {k \in DOMAIN s : s[k] \notin Whitespace}
    IN  IF keep = {} THEN <<>>
        ELSE LET lo == CHOOSE k \in keep : \A m \in keep : k <= m
                 hi == CHOOSE k \in keep : \A m \in keep : k >= m
             IN  SubSeq(s, lo, hi)

\* str.startswith(p)
StartsWith(s, p) == Len(s) >= Len(p) /\ SubSeq(s, 1, Len(p)) = p

\* sub in s
Contains(s, sub) ==
    \E k \in 0..(Len(s) - Len(sub)) : SubSeq(s, k + 1, k + Len(sub)) = sub

\* index of the first occurrence of the character c in s, 0 when there is none
FirstIndex(s, c) ==
    IF \E k \in DOMAIN s : s[k] = c
    THEN CHOOSE k \in DOMAIN s : s[k] = c /\ \A m \in 1..(k - 1) : s[m] # c
    ELSE 0

\* s.split(c, 1) when c occurs in s: the text before and after the first c
SplitFirst(s, c) ==
    LET k == FirstIndex(s, c)
    IN  <<SubSeq(s, 1, k - 1), SubSeq(s, k + 1, Len(s))>>

\* s.split(c)[0]
FirstSegment(s, c) ==
    IF FirstIndex(s, c) = 0 THEN s ELSE SubSeq(s, 1, FirstIndex(s, c) - 1)

Dash == <<"-">>

----------------------------------------------------------------------------
(* Naming *)

AWS_REGION_ABBREVIATIONS ==
    (<<"u","s","-","e","a","s","t","-","1">> :> <<"u","s","e","1">>) @@ (<<"u","s","-","e","a","s","t","-","2">> :> <<"u","s","e","2">>) @@
    (<<"u","s","-","w","e","s","t","-","1">> :> <<"u","s","w","1">>) @@ (<<"u","s","-","w","e","s","t","-","2">> :> <<"u","s","w","2">>) @@
    (<<"a","f","-","s","o","u","t","h","-","1">> :> <<"a","f","s","1">>) @@ (<<"a","p","-","e","a","s","t","-","1">> :> <<"a","p","e","1">>) @@
    (<<"a","p","-","s","o","u","t","h","-","1">> :> <<"a","p","s","1">>) @@ (<<"a","p","-","n","o","r","t","h","e","a","s","t","-","1">> :> <<"a","p","n","e","1">>) @@
    (<<"a","p","-","n","o","r","t","h","e","a","s","t","-","2">> :> <<"a","p","n","e","2">>) @@ (<<"a","p","-","n","o","r","t","h","e","a","s","t","-","3">> :> <<"a","p","n","e","3">>) @@
    (<<"a","p","-","s","o","u","t","h","e","a","s","t","-","1">> :> <<"a","p","s","e","1">>) @@ (<<"a","p","-","s","o","u","t","h","e","a","s","t","-","2">> :> <<"a","p","s","e","2">>) @@
    (<<"c","a","-","c","e","n","t","r","a","l","-","1">> :> <<"c","a","c","1">>) @@ (<<"e","u","-","c","e","n","t","r","a","l","-","1">> :> <<"e","u","c","1">>) @@
    (<<"e","u","-","w","e","s","t","-","1">> :> <<"e","u","w","1">>) @@ (<<"e","u","-","w","e","s","t","-","2">> :> <<"e","u","w","2">>) @@
    (<<"e","u","-","w","e","s","t","-","3">> :> <<"e","u","w","3">>) @@ (<<"e","u","-","n","o","r","t","h","-","1">> :> <<"e","u","n","1">>) @@
    (<<"e","u","-","s","o","u","t","h","-","1">> :> <<"e","u","s","1">>) @@ (<<"m","e","-","s","o","u","t","h","-","1">> :> <<"m","e","s","1">>) @@
    (<<"s","a","-","e","a","s","t","-","1">> :> <<"s","a","e","1">>) @@ (<<"u","s","-","g","o","v","-","e","a","s","t","-","1">> :> <<"u","s","g","e","1">>) @@
    (<<"u","s","-","g","o","v","-","w","e","s","t","-","1">> :> <<"u","s","g","w","1">>) @@ (<<"c","n","-","n","o","r","t","h","-","1">> :> <<"c","n","n","1">>) @@
    (<<"c","n","-","n","o","r","t","h","w","e","s","t","-","1">> :> <<"c","n","n","w","1">>)

\* dict.get(key, default) on the configuration document
ConfigGet(cfg, key, default) == IF key \in DOMAIN cfg THEN cfg[key] ELSE default

get_abbreviation(region) ==
    IF Lower(region) \in DOMAIN AWS_REGION_ABBREVIATIONS
    THEN AWS_REGION_ABBREVIATIONS[Lower(region)]
    ELSE Lower(FirstSegment(region, "-"))

generate_resource_name(cfg, base_name) ==
    LET team     == Lower(Strip(ConfigGet(cfg, "team", <<"t","e","a","m">>)))
        service  == Lower(Strip(ConfigGet(cfg, "service", <<"s","v","c">>)))
        env      == Lower(Strip(ConfigGet(cfg, "environment", <<"d","e","v">>)))
        reg_abbr == get_abbreviation(ConfigGet(cfg, "region", <<"u","s","-","e","a","s","t","-","1">>))
    IN  Lower(team \o Dash \o service \o Dash \o env \o Dash \o reg_abbr
              \o Dash \o base_name)

----------------------------------------------------------------------------
(* Argument values and the value resolver *)

Str(s) == [t |-> "str", s |-> s]

Bool(b) == [t |-> "bool", b |-> b]

Dict(m) == [t |-> "dict", m |-> m]

List(l) == [t |-> "list", l |-> l]

EmptyDict == [k \in {} |-> Str(<<>>)]

\* raise ValueError(f"Referenced resource '{ref_res}' not found.")
RaiseValueError == [t |-> "raise", exc |-> "ValueError"]

IsRaise(v) == v.t = "raise"

\* The registry is a Python dict: a sequence of entries in insertion order.
Keys(reg) == {reg[k].name : k \in DOMAIN reg}

Handle(reg, name) == reg[CHOOSE k \in DOMAIN reg : reg[k].name = name].handle

\* The value of attribute attr of a handle: a token naming the construct.
AttributeToken(h, attr) == [t |-> "attr", of |-> h.id, kind |-> h.kind, attr |-> attr]

\* getattr(resource_obj, ref_attr), or resource_obj.get_string(ref_attr) when
\* the attribute is no property: either way the attribute attr of the handle
ReadAttribute(h, attr) == AttributeToken(h, attr)

SecretPrefix == <<"s","e","c","r","e","t",":">>

RefPrefix == <<"r","e","f",":">>

\* resolve_ref splitting at the last "." instead of the first
resolve_ref_SplitsAtLastDot(value, reg) ==
    LET ref_text == SubSeq(value, 5, Len(value))
        dots     == {k \in DOMAIN ref_text : ref_text[k] = "."}
        last     == CHOOSE k \in dots : \A m \in dots : m <= k
        parts    == IF dots # {}
                    THEN <<SubSeq(ref_text, 1, last - 1),
                           SubSeq(ref_text, last + 1, Len(ref_text))>>
                    ELSE <<ref_text, <<"i","d">>>>
    IN  IF parts[1] \notin Keys(reg) THEN RaiseValueError
        ELSE ReadAttribute(Handle(reg, parts[1]), parts[2])

\* the branch of resolve_value for a string that starts with "ref:"
resolve_ref(value, reg) ==
    LET ref_text == SubSeq(value, 5, Len(value))
        parts    == IF Contains(ref_text, <<".">>)
                    THEN SplitFirst(ref_text, ".")
                    ELSE <<ref_text, <<"i","d">>>>
        ref_res  == parts[1]
        ref_attr == parts[2]
    IN  IF ref_res \notin Keys(reg) THEN RaiseValueError
        ELSE ReadAttribute(Handle(reg, ref_res), ref_attr)

\* the branch of resolve_value for a string
resolve_string(value, reg) ==
    IF StartsWith(value, SecretPrefix)
    THEN Str(<<"$","{">> \o SubSeq(value, Len(SecretPrefix) + 1, Len(value)) \o <<"}">>)
    ELSE IF StartsWith(value, RefPrefix)
         THEN resolve_ref(value, reg)
         ELSE Str(value)

RECURSIVE resolve_value(_, _)
resolve_value(value, reg) ==
    CASE value.t = "dict" ->
            LET r == [k \in DOMAIN value.m |-> resolve_value(value.m[k], reg)]
            IN  IF \E k \in DOMAIN r : IsRaise(r[k]) THEN RaiseValueError
                ELSE Dict(r)
      [] value.t = "list" ->
            LET r == [k \in DOMAIN value.l |-> resolve_value(value.l[k], reg)]
            IN  IF \E k \in DOMAIN r : IsRaise(r[k]) THEN RaiseValueError
                ELSE List(r)
      [] value.t = "str" -> resolve_string(value.s, reg)
      [] OTHER -> value

\* resolve_args: the resolved dict, or the exception a value raised
resolve_args(args, reg) ==
    LET r == [k \in DOMAIN args |-> resolve_value(args[k], reg)]
    IN  IF \E k \in DOMAIN r : IsRaise(r[k])
        THEN [ok |-> FALSE, exc |-> "ValueError"]
        ELSE [ok |-> TRUE, val |-> r]

----------------------------------------------------------------------------
(* Type mapping and tag policy *)

service_map ==
    (<<"v","p","c">> :> <<"v","p","c">>) @@ (<<"e","c","2">> :> <<"i","n","s","t","a","n","c","e">>) @@
    (<<"s","3">> :> <<"s","3","_","b","u","c","k","e","t">>) @@ (<<"s","3","_","b","u","c","k","e","t">> :> <<"s","3","_","b","u","c","k","e","t">>) @@
    (<<"i","a","m">> :> <<"i","a","m","_","r","o","l","e">>) @@ (<<"l","a","m","b","d","a">> :> <<"l","a","m","b","d","a","_","f","u","n","c","t","i","o","n">>) @@
    (<<"a","p","i","g","a","t","e","w","a","y">> :> <<"a","p","i","_","g","a","t","e","w","a","y","_","r","e","s","t","_","a","p","i">>) @@
    (<<"a","p","i","g","a","t","e","w","a","y","v","2">> :> <<"a","p","i","g","a","t","e","w","a","y","v","2","_","a","p","i">>) @@
    (<<"d","y","n","a","m","o","d","b">> :> <<"d","y","n","a","m","o","d","b","_","t","a","b","l","e">>) @@
    (<<"c","l","o","u","d","f","r","o","n","t">> :> <<"c","l","o","u","d","f","r","o","n","t","_","d","i","s","t","r","i","b","u","t","i","o","n">>) @@
    (<<"c","l","o","u","d","w","a","t","c","h">> :> <<"c","l","o","u","d","w","a","t","c","h","_","d","a","s","h","b","o","a","r","d">>) @@
    (<<"c","o","g","n","i","t","o">> :> <<"c","o","g","n","i","t","o","_","u","s","e","r","_","p","o","o","l">>) @@
    (<<"s","q","s">> :> <<"s","q","s","_","q","u","e","u","e">>) @@ (<<"s","s","m">> :> <<"s","s","m","_","p","a","r","a","m","e","t","e","r">>) @@
    (<<"b","e","d","r","o","c","k">> :> <<"b","e","d","r","o","c","k","_","a","g","e","n","t">>)

\* <<module_name, class_name>>
map_resource_type(resource_type) ==
    LET parts == IF Contains(resource_type, <<".">>)
                 THEN SplitFirst(resource_type, ".")
                 ELSE <<<<"e","c","2">>, resource_type>>
        service == Lower(parts[1])
    IN  <<IF service \in DOMAIN service_map THEN service_map[service] ELSE service,
          parts[2]>>

tag_supporting_resources ==
    { <<"s","3","_","b","u","c","k","e","t",".","s","3","b","u","c","k","e","t">>, <<"l","a","m","b","d","a","_","f","u","n","c","t","i","o","n",".","l","a","m","b","d","a","f","u","n","c","t","i","o","n">>,
      <<"d","y","n","a","m","o","d","b","_","t","a","b","l","e",".","d","y","n","a","m","o","d","b","t","a","b","l","e">>,
      <<"a","p","i","_","g","a","t","e","w","a","y","_","r","e","s","t","_","a","p","i",".","a","p","i","g","a","t","e","w","a","y","r","e","s","t","a","p","i">>,
      <<"c","o","g","n","i","t","o","_","u","s","e","r","_","p","o","o","l",".","c","o","g","n","i","t","o","u","s","e","r","p","o","o","l">>, <<"s","q","s","_","q","u","e","u","e",".","s","q","s","q","u","e","u","e">>,
      <<"a","p","i","g","a","t","e","w","a","y","v","2","_","a","p","i",".","a","p","i","g","a","t","e","w","a","y","v","2","a","p","i">>, <<"s","s","m","_","p","a","r","a","m","e","t","e","r",".","s","s","m","p","a","r","a","m","e","t","e","r">>,
      <<"i","a","m","_","r","o","l","e",".","i","a","m","r","o","l","e">>, <<"c","l","o","u","d","f","r","o","n","t","_","d","i","s","t","r","i","b","u","t","i","o","n",".","c","l","o","u","d","f","r","o","n","t","d","i","s","t","r","i","b","u","t","i","o","n">> }

supports_tags(resource_type) ==
    \E tag_resource \in tag_supporting_resources :
        Contains(Lower(resource_type), Lower(tag_resource))

\* Python truthiness of a value
Truthy(v) ==
    CASE v.t = "bool" -> v.b
      [] v.t = "str"  -> Len(v.s) > 0
      [] v.t = "dict" -> DOMAIN v.m # {}
      [] v.t = "list" -> Len(v.l) > 0
      [] OTHER -> TRUE

\* dict.setdefault(key, value): the dict afterwards
SetDefault(d, key, value) ==
    IF key \in DOMAIN d THEN d
    ELSE [k \in DOMAIN d \cup {key} |-> IF k = key THEN value ELSE d[k]]

\* apply_common_parameters assigning tags instead of setting a default
apply_common_parameters_Overwrites(cfg, resolved_args, resource_type) ==
    IF supports_tags(resource_type)
    THEN LET resource_tags == ConfigGet(cfg, "tags", Dict(EmptyDict))
         IN  IF Truthy(resource_tags)
             THEN [k \in DOMAIN resolved_args \cup {"tags"} |->
                      IF k = "tags" THEN resource_tags ELSE resolved_args[k]]
             ELSE resolved_args
    ELSE resolved_args

apply_common_parameters(cfg, resolved_args, resource_type) ==
    IF supports_tags(resource_type)
    THEN LET resource_tags == ConfigGet(cfg, "tags", Dict(EmptyDict))
         IN  IF Truthy(resource_tags)
             THEN SetDefault(resolved_args, "tags", resource_tags)
             ELSE resolved_args
    ELSE resolved_args

----------------------------------------------------------------------------
(* The backend: the modules under imports.aws and the classes they hold *)

BackendModules ==
    (<<"s","3","_","b","u","c","k","e","t">> :> {<<"S","3","B","u","c","k","e","t">>}) @@
    (<<"s","3","_","b","u","c","k","e","t","_","d","a","t","a">> :> {<<"S","3","B","u","c","k","e","t","D","a","t","a">>}) @@
    (<<"v","p","c">> :> {<<"V","p","c">>}) @@
    (<<"v","p","c","_","d","a","t","a">> :> {}) @@
    (<<"s","u","b","n","e","t">> :> {<<"S","u","b","n","e","t">>}) @@
    (<<"i","n","s","t","a","n","c","e">> :> {<<"I","n","s","t","a","n","c","e">>})

\* importlib.import_module(f"imports.aws.{module}") then getattr(module, class):
\* "ok", or the exception raised
import_class(module_name, class_name) ==
    IF module_name \notin DOMAIN BackendModules THEN "ImportError"
    ELSE IF class_name \notin BackendModules[module_name] THEN "AttributeError"
    ELSE "ok"

\* ResourceClass(self.stack, name, **resolved_args) and
\* DataClass(self.stack, name, **resolved_args): the handle returned
Construct(kind, module_name, class_name, id, args) ==
    [kind |-> kind, module |-> module_name, class |-> class_name,
     id |-> id, args |-> args]

\* the registry rebuilt around the new handle instead of extended by it
Put_Rebuilds(reg, name, handle) == <<[name |-> name, handle |-> handle]>>

\* self.resources[name] = handle
Put(reg, name, handle) ==
    IF name \in Keys(reg)
    THEN [k \in DOMAIN reg |->
            IF reg[k].name = name THEN [name |-> name, handle |-> handle] ELSE reg[k]]
    ELSE Append(reg, [name |-> name, handle |-> handle])

OutputPrefix == <<"o","u","t","p","u","t","_">>

----------------------------------------------------------------------------
(* One iteration of the first loop of build(), on resource_cfg *)

\* resource_cfg.get("args", {})
ArgsOf(resource_cfg) == ConfigGet(resource_cfg, "args", EmptyDict)

\* args.pop("existing", False): the value popped
is_existing(args) ==
    IF "existing" \in DOMAIN args THEN Truthy(args["existing"]) ELSE FALSE

\* args.pop("existing", False): the dict afterwards
PopExisting(args) == [k \in DOMAIN args \ {"existing"} |-> args[k]]

\* resource_cfg after an iteration that pops "existing" from args itself
resource_cfg_after_NoCopy(resource_cfg) ==
    IF "args" \in DOMAIN resource_cfg
    THEN [resource_cfg EXCEPT !.args = PopExisting(@)]
    ELSE resource_cfg

\* resource_cfg after the iteration: .copy() is popped, resource_cfg is not
resource_cfg_after(resource_cfg) == resource_cfg

\* custom_name if custom_name else self.generate_resource_name(name)
TerraformName(cfg, resource_cfg) ==
    LET custom_name == ConfigGet(resource_cfg, "custom_name", <<>>)
    IN  IF Len(custom_name) > 0 THEN custom_name
        ELSE generate_resource_name(cfg, resource_cfg.name)

\* the call of generate_resource_name that assigning terraform_name makes, if any
NameCall(cfg, resource_cfg, before) ==
    IF Len(ConfigGet(resource_cfg, "custom_name", <<>>)) > 0 THEN before
    ELSE <<resource_cfg.name, generate_resource_name(cfg, resource_cfg.name)>>

\* the branch build() takes on is_existing: the constructor it calls
BackendKind(existing) == IF existing THEN "data" ELSE "resource"

\* the first argument after the scope in the constructor call
ConstructId(cfg, resource_cfg) == resource_cfg.name

\* the key the handle is stored under
RegistryKey(cfg, resource_cfg) == resource_cfg.name

\* the imports of one iteration: "ok" or the exception caught
ImportOutcome(resource_cfg) ==
    LET mc == map_resource_type(resource_cfg.type)
        first == import_class(mc[1], mc[2])
    IN  IF first # "ok" THEN first
        ELSE IF is_existing(ArgsOf(resource_cfg))
             THEN import_class(mc[1] \o <<"_","d","a","t","a">>, mc[2] \o <<"D","a","t","a">>)
             ELSE "ok"

\* TRUE when the exception was raised after terraform_name was assigned
RaisedInDataImport(resource_cfg) ==
    LET mc == map_resource_type(resource_cfg.type)
    IN  import_class(mc[1], mc[2]) = "ok"

----------------------------------------------------------------------------
(* The configuration documents of the model *)

MaxDecls == 3

Decl(name, type, args) == [name |-> name, type |-> type, args |-> args]

DeclCustom(name, type, args, custom_name) ==
    [name |-> name, type |-> type, args |-> args, custom_name |-> custom_name]

DeclPool ==
    { \* a bucket, no arguments
      Decl(<<"a">>, <<"s","3","_","b","u","c","k","e","t",".","S","3","B","u","c","k","e","t">>, EmptyDict),
      \* a bucket through the service table, with a custom name
      DeclCustom(<<"a">>, <<"s","3",".","S","3","B","u","c","k","e","t">>, [bucket |-> Str(<<"l","i","t">>)], <<"M","y","-","B","u","c","k","e","t">>),
      \* refers to itself
      Decl(<<"a">>, <<"v","p","c",".","V","p","c">>, [vpc_id |-> Str(<<"r","e","f",":","a">>)]),
      \* refers to a, default attribute
      Decl(<<"b">>, <<"v","p","c",".","V","p","c">>, [vpc_id |-> Str(<<"r","e","f",":","a">>), existing |-> Bool(FALSE)]),
      \* refers to a inside a list and inside explicit tags; a secret
      Decl(<<"b">>, <<"s","u","b","n","e","t",".","S","u","b","n","e","t">>,
           [ids |-> List(<<Str(<<"r","e","f",":","a",".","a","r","n">>), Str(<<"s","e","c","r","e","t",":","k">>)>>),
            tags |-> Dict([Name |-> Str(<<"r","e","f",":","a",".","x",".","y">>)])]),
      \* refers to a name no declaration has; a type without a service
      Decl(<<"b">>, <<"I","n","s","t","a","n","c","e">>, [vpc_id |-> Str(<<"r","e","f",":","z">>)]),
      \* a lookup whose data module has no such class; refers to c
      Decl(<<"b">>, <<"v","p","c",".","V","p","c">>, [existing |-> Bool(TRUE), vpc_id |-> Str(<<"r","e","f",":","c",".","i","d">>)]),
      \* a lookup of an existing bucket with explicit tags
      Decl(<<"c">>, <<"s","3","_","b","u","c","k","e","t",".","S","3","B","u","c","k","e","t">>,
           [tags |-> Dict([Team |-> Str(<<"y">>)]), existing |-> Bool(TRUE)]),
      \* a module the backend does not have
      Decl(<<"c">>, <<"f","o","o",".","W","i","d","g","e","t">>, [cidr_block |-> Str(<<"1","0",".","0",".","0",".","0","/","1","6">>)]) }

RECURSIVE DeclLists(_)
DeclLists(n) ==
    IF n = 0 THEN {<<>>}
    ELSE LET shorter == DeclLists(n - 1)
         IN  shorter \cup {Append(l, d) : l \in {x \in shorter : Len(x) = n - 1},
                                          d \in DeclPool}

ContextTags == Dict([Owner |-> Str(<<"x">>)])

Context ==
    [team |-> <<"D","e","m","o">>, service |-> <<"e","x","a","m","p","l","e">>, environment |-> <<"d","e","v">>,
     region |-> <<"u","s","-","e","a","s","t","-","1">>]

WithField(r, key, value) ==
    [k \in DOMAIN r \cup {key} |-> IF k = key THEN value ELSE r[k]]

BuildConfigs ==
    LET withDecls == {WithField(Context, "aws_resources", l) : l \in DeclLists(MaxDecls)}
    IN  withDecls
        \cup {WithField(c, "tags", ContextTags) : c \in withDecls}
        \cup {WithField(c, "tags", Dict(EmptyDict)) : c \in withDecls}

----------------------------------------------------------------------------
(* AWSResourceBuilder.__init__ and build() *)

AfterConstruction ==
    /\ resources = <<>>
    /\ stack = {<<"a","w","s">>}
    /\ pc = "build"
    /\ raised = "None"
    /\ i = 1
    /\ j = 1
    /\ calls = <<>>
    /\ outputs = <<>>
    /\ log = <<>>
    /\ terraform_name = <<>>
    /\ name_call = <<>>

Init ==
    /\ config \in BuildConfigs
    /\ AfterConstruction

aws_resources == ConfigGet(config, "aws_resources", <<>>)

InFirstLoop == pc = "build" /\ i \in DOMAIN aws_resources

resource_cfg == aws_resources[i]

Resolved == resolve_args(PopExisting(ArgsOf(resource_cfg)), resources)

\* config as the iteration leaves it
ConfigAfterIteration ==
    [config EXCEPT !.aws_resources[i] = resource_cfg_after(@)]

\* resolve_args raises ValueError: outside the try, the exception leaves build()
ResolveRaises ==
    /\ InFirstLoop
    /\ ~Resolved.ok
    /\ pc' = "raised"
    /\ raised' = Resolved.exc
    /\ config' = ConfigAfterIteration
    /\ UNCHANGED <<resources, stack, i, j, calls, outputs, log, terraform_name, name_call>>

\* ImportError or AttributeError inside the try: printed, next declaration
ImportFails ==
    /\ InFirstLoop
    /\ Resolved.ok
    /\ ImportOutcome(resource_cfg) # "ok"
    /\ log' = Append(log, [msg |-> "Error creating resource", name |-> resource_cfg.name,
                           type |-> resource_cfg.type,
                           exc |-> ImportOutcome(resource_cfg)])
    /\ terraform_name' = IF RaisedInDataImport(resource_cfg)
                         THEN TerraformName(config, resource_cfg)
                         ELSE terraform_name
    /\ name_call' = IF RaisedInDataImport(resource_cfg)
                    THEN NameCall(config, resource_cfg, name_call)
                    ELSE name_call
    /\ i' = i + 1
    /\ config' = ConfigAfterIteration
    /\ UNCHANGED <<resources, stack, pc, raised, j, calls, outputs>>

\* the arguments the constructor is called with
BackendArgs == apply_common_parameters(config, Resolved.val, resource_cfg.type)

\* the constructor refuses an id its scope already holds: the error is neither
\* ImportError nor AttributeError, and leaves build()
ConstructRaises ==
    /\ InFirstLoop
    /\ Resolved.ok
    /\ ImportOutcome(resource_cfg) = "ok"
    /\ ConstructId(config, resource_cfg) \in stack
    /\ terraform_name' = TerraformName(config, resource_cfg)
    /\ name_call' = NameCall(config, resource_cfg, name_call)
    /\ pc' = "raised"
    /\ raised' = "RuntimeError"
    /\ config' = ConfigAfterIteration
    /\ UNCHANGED <<resources, stack, i, j, calls, outputs, log>>

\* the constructor call, the registration and the print of one iteration
Materialize(kind, message) ==
    LET mc == map_resource_type(resource_cfg.type)
        id == ConstructId(config, resource_cfg)
        handle == Construct(kind, IF kind = "data" THEN mc[1] \o <<"_","d","a","t","a">> ELSE mc[1],
                            IF kind = "data" THEN mc[2] \o <<"D","a","t","a">> ELSE mc[2],
                            id, BackendArgs)
    IN  /\ terraform_name' = TerraformName(config, resource_cfg)
        /\ name_call' = NameCall(config, resource_cfg, name_call)
        /\ calls' = Append(calls, [decl |-> i, handle |-> handle])
        /\ stack' = stack \cup {id}
        /\ resources' = Put(resources, RegistryKey(config, resource_cfg), handle)
        /\ log' = Append(log, [msg |-> message,
                               name |-> TerraformName(config, resource_cfg),
                               type |-> resource_cfg.type])
        /\ i' = i + 1
        /\ config' = ConfigAfterIteration
        /\ UNCHANGED <<pc, raised, j, outputs>>

CanMaterialize ==
    /\ InFirstLoop
    /\ Resolved.ok
    /\ ImportOutcome(resource_cfg) = "ok"
    /\ ConstructId(config, resource_cfg) \notin stack

\* if is_existing: DataClass(self.stack, name, **resolved_args)
CreateDataSource ==
    /\ CanMaterialize
    /\ BackendKind(is_existing(ArgsOf(resource_cfg))) = "data"
    /\ Materialize("data", "Created data source for")

\* else: ResourceClass(self.stack, name, **resolved_args)
CreateResource ==
    /\ CanMaterialize
    /\ BackendKind(is_existing(ArgsOf(resource_cfg))) = "resource"
    /\ Materialize("resource", "Created resource")

\* the first loop is exhausted: on to the exports
StartExports ==
    /\ pc = "build"
    /\ i = Len(aws_resources) + 1
    /\ pc' = "export"
    /\ j' = 1
    /\ UNCHANGED <<config, resources, stack, raised, i, calls, outputs, log,
                   terraform_name, name_call>>

InExportLoop == pc = "export" /\ j \in DOMAIN resources

OutputId == OutputPrefix \o resources[j].name

\* TerraformOutput(self.stack, f"output_{name}", value=resource.id)
ExportOutput ==
    /\ InExportLoop
    /\ OutputId \notin stack
    /\ outputs' = Append(outputs, [id |-> OutputId,
                                   value |-> ReadAttribute(resources[j].handle, <<"i","d">>)])
    /\ stack' = stack \cup {OutputId}
    /\ j' = j + 1
    /\ UNCHANGED <<config, resources, pc, raised, i, calls, log, terraform_name, name_call>>

\* an export failure caught outside the loop: the remaining exports are lost
ExportFails_EndsTheLoop ==
    /\ InExportLoop
    /\ log' = Append(log, [msg |-> "Failed to export resource", name |-> resources[j].name])
    /\ pc' = "done"
    /\ UNCHANGED <<config, resources, stack, raised, i, j, calls, outputs,
                   terraform_name, name_call>>

\* reading resource.id or creating the output raises: caught and printed
ExportFails ==
    /\ InExportLoop
    /\ log' = Append(log, [msg |-> "Failed to export resource", name |-> resources[j].name])
    /\ j' = j + 1
    /\ UNCHANGED <<config, resources, stack, pc, raised, i, calls, outputs,
                   terraform_name, name_call>>

\* the second loop is exhausted: build() returns
Return ==
    /\ pc = "export"
    /\ j = Len(resources) + 1
    /\ pc' = "done"
    /\ UNCHANGED <<config, resources, stack, raised, i, j, calls, outputs, log,
                   terraform_name, name_call>>

Next ==
    \/ ResolveRaises
    \/ ImportFails
    \/ ConstructRaises
    \/ CreateDataSource
    \/ CreateResource
    \/ StartExports
    \/ ExportOutput
    \/ ExportFails
    \/ Return

Spec == Init /\ [][Next]_vars

----------------------------------------------------------------------------
(* generate_resource_name on its own: the contexts and base names of the model *)

NameTeams == {<<"D","e","m","o">>, <<"d","e","m","o">>, <<" ","D","e","m","o"," ">>, <<"D","E","M","O","\t">>}

NameServices == {<<"e","x","a","m","p","l","e">>, <<"E","x","a","m","p","l","e"," ">>}

NameEnvironments == {<<"d","e","v">>, <<"D","E","V">>, <<" ","P","r","o","d">>}

NameRegions ==
    {<<"u","s","-","e","a","s","t","-","1">>, <<"U","S","-","E","a","s","t","-","1">>, <<" ","u","s","-","e","a","s","t","-","1">>, <<"u","s","-","e","a","s","t","-","1"," ">>, <<"e","u","-","w","e","s","t","-","3">>,
     <<"f","o","o","-","b","a","r","-","1">>, <<"F","o","o","-","B","a","r","-","1">>, <<"l","o","c","a","l">>}

BaseNames == {<<"v","p","c","-","e","x","a","m","p","l","e">>, <<"D","b">>}

NameConfigs ==
    {[team |-> t, service |-> s, environment |-> e, region |-> r] :
        t \in NameTeams, s \in NameServices, e \in NameEnvironments, r \in NameRegions}
    \cup {[team |-> t, service |-> s] : t \in NameTeams, s \in NameServices}

NameInit ==
    /\ config \in NameConfigs
    /\ AfterConstruction

\* builder.generate_resource_name(base_name)
GenerateName ==
    /\ \E base_name \in BaseNames :
          name_call' = <<base_name, generate_resource_name(config, base_name)>>
    /\ UNCHANGED <<config, resources, stack, pc, raised, i, j, calls, outputs, log,
                   terraform_name>>

NameNext == GenerateName

NameSpec == NameInit /\ [][NameNext]_vars

----------------------------------------------------------------------------
(* Vocabulary of the properties *)

Range(f) == {f[k] : k \in DOMAIN f}

\* the declaration a backend call was made for
DeclOf(c) == aws_resources[c.decl]

\* the names of the outputs created
OutputIds == {o.id : o \in Range(outputs)}

\* the registry names whose export was caught failing
FailedExports ==
    {e.name : e \in {x \in Range(log) : x.msg = "Failed to export resource"}}

\* a type-resolution failure was caught for some declaration
TypeFailureCaught == \E e \in Range(log) : e.msg = "Error creating resource"

\* no two declarations of the document share a name
UniqueNames ==
    \A k, m \in DOMAIN aws_resources :
        aws_resources[k].name = aws_resources[m].name => k = m

----------------------------------------------------------------------------
(* C1 *)

\* C1: a declaration whose args hold a ref: to a name that is not in the
\* registry when it is processed is skipped and nothing else is: the build is
\* never left by the reference-not-found error, every run ends with the
\* exports done, and the outputs are those of the registered declarations.
C1_BadReferenceSkipsOnlyThatDeclaration ==
    /\ raised # "ValueError"
    /\ (UniqueNames => pc # "raised")
    /\ (pc = "done" =>
          OutputIds \cup {OutputPrefix \o n : n \in FailedExports}
            = {OutputPrefix \o n : n \in Keys(resources)})

----------------------------------------------------------------------------
(* C2 *)

\* the names and attributes the markers of the property are built from
ProbeNames == {<<"a">>, <<"b">>, <<"c">>, <<"z">>}

ProbeAttributes == {<<"i","d">>, <<"a","r","n">>, <<"x",".","y">>}

\* the probes: <<marker, name, attribute>>
Probes ==
    {<<RefPrefix \o n, n, <<"i","d">>>> : n \in ProbeNames}
    \cup {<<RefPrefix \o n \o <<".">> \o a, n, a>> : n \in ProbeNames, a \in ProbeAttributes}

\* the backend calls made for declarations named n among the first k calls
CallsNamed(n, k) == {c \in 1..k : DeclOf(calls[c]).name = n}

\* what a probe must resolve to when its name is registered by call c
ExpectedAttribute(c, attr) ==
    [t |-> "attr", of |-> calls[c].handle.id, kind |-> calls[c].handle.kind,
     attr |-> attr]

\* the string leaves of an argument value
RECURSIVE Leaves(_)
Leaves(v) ==
    CASE v.t = "dict" -> UNION {Leaves(v.m[k]) : k \in DOMAIN v.m}
      [] v.t = "list" -> UNION {Leaves(v.l[k]) : k \in DOMAIN v.l}
      [] v.t = "str"  -> {v.s}
      [] OTHER -> {}

\* the probes among the argument values of declaration d
ProbesIn(d) ==
    {p \in Probes : p[1] \in Leaves(Dict(PopExisting(ArgsOf(d))))}

\* C2: while the first loop is at declaration i, a marker ref:A.attr (ref:A
\* standing for ref:A.id, the name ending at the first ".") resolves to the
\* attribute attr of the handle a declaration before i registered under A, and
\* raises the reference-not-found error when no declaration before i
\* registered A; the arguments every backend call was made with hold, for each
\* top-level marker, that attribute of a handle created by an earlier call;
\* and resolve_args raised exactly for a declaration holding a marker whose
\* name was not registered.
C2_ReferencesResolveInDocumentOrder ==
    /\ InFirstLoop =>
         \A p \in Probes :
            LET r == resolve_value(Str(p[1]), resources)
                before == CallsNamed(p[2], Len(calls))
            IN  IF before = {} THEN r = RaiseValueError
                ELSE \E c \in before : r = ExpectedAttribute(c, p[3])
    /\ \A c \in DOMAIN calls :
          /\ \A p \in ProbesIn(DeclOf(calls[c])) : CallsNamed(p[2], c - 1) # {}
          /\ \A key \in DOMAIN ArgsOf(DeclOf(calls[c])) \ {"existing"} :
                \A p \in Probes :
                   ArgsOf(DeclOf(calls[c]))[key] = Str(p[1]) =>
                      \E b \in CallsNamed(p[2], c - 1) :
                         calls[c].handle.args[key] = ExpectedAttribute(b, p[3])
    /\ raised = "ValueError" =>
          \E p \in ProbesIn(aws_resources[i]) : CallsNamed(p[2], Len(calls)) = {}

\* C2 witness: a declaration was materialized with ref:a.arn and ref:a.x.y
\* resolved against the handle registered under a, and another raised on ref:z
C2_Witness ==
    /\ raised = "ValueError"
    /\ <<"r","e","f",":","z">> \in Leaves(Dict(ArgsOf(aws_resources[i])))
    /\ \E c \in DOMAIN calls :
          /\ "ids" \in DOMAIN calls[c].handle.args
          /\ calls[c].handle.args["ids"].l[1]
               = [t |-> "attr", of |-> <<"a">>, kind |-> "resource", attr |-> <<"a","r","n">>]
          /\ calls[c].handle.args["tags"].m["Name"]
               = [t |-> "attr", of |-> <<"a">>, kind |-> "resource", attr |-> <<"x",".","y">>]

----------------------------------------------------------------------------
(* C3 *)

\* C3: the identifier every backend call is made with is custom_name when the
\* declaration sets one and the generated name of the declaration's name
\* otherwise, and the handle is registered under the declaration's name.
C3_BackendIdentifierIsTerraformName ==
    \A c \in DOMAIN calls :
       LET d == DeclOf(calls[c])
       IN  /\ calls[c].handle.id =
                IF "custom_name" \in DOMAIN d THEN d.custom_name
                ELSE generate_resource_name(config, d.name)
           /\ d.name \in Keys(resources)
           /\ Handle(resources, d.name) = calls[c].handle

----------------------------------------------------------------------------
(* C4 *)

\* the modules of the tag-capable resource families
TagFamilies ==
    { <<"s","3","_","b","u","c","k","e","t">>, <<"l","a","m","b","d","a","_","f","u","n","c","t","i","o","n">>, <<"d","y","n","a","m","o","d","b","_","t","a","b","l","e">>,
      <<"a","p","i","_","g","a","t","e","w","a","y","_","r","e","s","t","_","a","p","i">>, <<"c","o","g","n","i","t","o","_","u","s","e","r","_","p","o","o","l">>, <<"s","q","s","_","q","u","e","u","e">>,
      <<"a","p","i","g","a","t","e","w","a","y","v","2","_","a","p","i">>, <<"s","s","m","_","p","a","r","a","m","e","t","e","r">>, <<"i","a","m","_","r","o","l","e">>,
      <<"c","l","o","u","d","f","r","o","n","t","_","d","i","s","t","r","i","b","u","t","i","o","n">> }

\* C4: every backend call for a declaration whose type maps to a tag-capable
\* family and whose args have no tags key carries tags equal to the
\* context's tags, when those are not empty.
C4_ContextTagsInjected ==
    \A c \in DOMAIN calls :
       LET d == DeclOf(calls[c])
       IN  ( /\ map_resource_type(d.type)[1] \in TagFamilies
             /\ "tags" \in DOMAIN config
             /\ Truthy(config.tags)
             /\ "tags" \notin DOMAIN ArgsOf(d) )
           => /\ "tags" \in DOMAIN calls[c].handle.args
              /\ calls[c].handle.args["tags"] = config.tags

----------------------------------------------------------------------------
(* C5 *)

\* C5: a step that makes a backend call for a declaration whose args hold a
\* tags key passes, as tags, that value resolved against the registry of the
\* moment: the context's tags neither replace it nor are merged into it.
C5_ExplicitTagsWin ==
    [][ ( /\ Len(calls') = Len(calls) + 1
          /\ "tags" \in DOMAIN ArgsOf(resource_cfg) )
        => calls'[Len(calls')].handle.args["tags"]
             = resolve_value(ArgsOf(resource_cfg)["tags"], resources) ]_vars

\* C5 witness: a bucket declared with tags {Team: y} under context tags
\* {Owner: x} was handed to the backend with tags {Team: y}
C5_Witness ==
    /\ "tags" \in DOMAIN config
    /\ config.tags = ContextTags
    /\ \E c \in DOMAIN calls :
          /\ supports_tags(DeclOf(calls[c]).type)
          /\ ArgsOf(DeclOf(calls[c]))["tags"] = Dict([Team |-> Str(<<"y">>)])
          /\ calls[c].handle.args["tags"] = Dict([Team |-> Str(<<"y">>)])

----------------------------------------------------------------------------
(* C6 *)

\* C6: after a type-resolution failure was caught for a declaration, nothing
\* is registered under its name, every later declaration is processed and the
\* build reaches the exports (in documents whose names are unique).
C6_TypeFailureIsIsolated ==
    (UniqueNames /\ TypeFailureCaught) =>
        /\ pc # "raised"
        /\ \A e \in Range(log) :
              e.msg = "Error creating resource" => e.name \notin Keys(resources)

----------------------------------------------------------------------------
(* C7 *)

\* C7: the exports start only when every declaration has been processed;
\* every output is output_<name> of a registry entry with that handle's id as
\* value; when build() returns, each registry entry was exported or its
\* failure caught, so a failure stops no other export.
C7_ExportPhase ==
    /\ pc \in {"build", "raised"} => outputs = <<>>
    /\ pc \in {"export", "done"} => i = Len(aws_resources) + 1
    /\ \A o \in Range(outputs) :
          \E k \in DOMAIN resources :
             /\ o.id = OutputPrefix \o resources[k].name
             /\ o.value = [t |-> "attr", of |-> resources[k].handle.id,
                           kind |-> resources[k].handle.kind, attr |-> <<"i","d">>]
             /\ (pc = "export" => k < j)
    /\ pc = "done" =>
          /\ \A n \in Keys(resources) :
                (OutputPrefix \o n \in OutputIds) # (n \in FailedExports)
          /\ Len(outputs) + Cardinality(FailedExports) = Len(resources)

\* C7 witness: build() returned with the export of the first registry entry
\* failed and the second entry exported
C7_Witness ==
    /\ pc = "done"
    /\ Len(resources) >= 2
    /\ resources[1].name \in FailedExports
    /\ OutputPrefix \o resources[2].name \in OutputIds

----------------------------------------------------------------------------
(* C8 *)

\* the abbreviation of a region, trimmed and whatever its letter case
ExpectedAbbreviation(region) ==
    LET r == Lower(Strip(region))
    IN  IF r \in DOMAIN AWS_REGION_ABBREVIATIONS THEN AWS_REGION_ABBREVIATIONS[r]
        ELSE FirstSegment(r, "-")

ExpectedName(cfg, base_name) ==
    Lower(Strip(ConfigGet(cfg, "team", <<"t","e","a","m">>))) \o Dash
    \o Lower(Strip(ConfigGet(cfg, "service", <<"s","v","c">>))) \o Dash
    \o Lower(Strip(ConfigGet(cfg, "environment", <<"d","e","v">>))) \o Dash
    \o ExpectedAbbreviation(ConfigGet(cfg, "region", <<"u","s","-","e","a","s","t","-","1">>)) \o Dash
    \o Lower(base_name)

\* C8: the generated name is team-service-environment-regionAbbr-baseName in
\* lower case, each of the four context fields trimmed and taken whatever its
\* letter case, regionAbbr being the table's abbreviation of the region or the
\* first hyphen-delimited segment of a region the table does not hold.
C8_GeneratedName ==
    name_call # <<>> => name_call[2] = ExpectedName(config, name_call[1])

----------------------------------------------------------------------------
(* C9 *)

\* C9: every step leaves the registry as it is or appends one entry, under
\* the name of the declaration the loop is at, a name the registry did not
\* hold: no entry is ever removed or replaced.
C9_RegistryIsAppendOnly ==
    [][ \/ resources' = resources
        \/ /\ Len(resources') = Len(resources) + 1
           /\ SubSeq(resources', 1, Len(resources)) = resources
           /\ InFirstLoop
           /\ resources'[Len(resources')].name = resource_cfg.name
           /\ resource_cfg.name \notin Keys(resources) ]_vars

\* C9 witness: a second entry was appended after a declaration failed
C9_Witness ==
    /\ Len(resources) >= 2
    /\ TypeFailureCaught
    /\ \E e \in Range(log) :
          /\ e.msg = "Error creating resource"
          /\ \E k \in DOMAIN aws_resources :
                /\ aws_resources[k].name = e.name
                /\ calls[1].decl < k
                /\ k < calls[2].decl

----------------------------------------------------------------------------
(* C10 *)

\* the existing flag as the document gives it
DeclaredExisting(d) ==
    /\ "existing" \in DOMAIN ArgsOf(d)
    /\ ArgsOf(d)["existing"] = Bool(TRUE)

C10_Dispatch ==
    /\ Len(calls) = Len(resources)
    /\ \A c \in DOMAIN calls :
          /\ calls[c].handle = resources[c].handle
          /\ \A b \in DOMAIN calls : calls[b].decl = calls[c].decl => b = c
          /\ (calls[c].handle.kind = "data") = DeclaredExisting(DeclOf(calls[c]))
          /\ calls[c].handle.kind \in {"data", "resource"}
          /\ "existing" \notin DOMAIN calls[c].handle.args
          /\ DOMAIN calls[c].handle.args \ {"tags"}
               = DOMAIN ArgsOf(DeclOf(calls[c])) \ {"existing", "tags"}

\* C10: each materialized declaration has exactly one backend call, a data
\* lookup if and only if its existing flag is true and a create otherwise;
\* existing is no key of the arguments passed; and no step of the build
\* changes the configuration document, the declarations' args included.
C10_ExistingVersusNew ==
    [][config' = config /\ C10_Dispatch']_vars

\* C10 witness: a lookup for a declaration with existing true and creates for
\* one with existing false and one without the flag, the document as loaded
C10_Witness ==
    /\ \E c \in DOMAIN calls :
          /\ calls[c].handle.kind = "data"
          /\ ArgsOf(DeclOf(calls[c]))["existing"] = Bool(TRUE)
    /\ \E c \in DOMAIN calls :
          /\ calls[c].handle.kind = "resource"
          /\ "existing" \in DOMAIN ArgsOf(DeclOf(calls[c]))
          /\ ArgsOf(DeclOf(calls[c]))["existing"] = Bool(FALSE)
    /\ \E c \in DOMAIN calls :
          /\ calls[c].handle.kind = "resource"
          /\ "existing" \notin DOMAIN ArgsOf(DeclOf(calls[c]))

====
